---- MODULE Spec2Model ----
(***************************************************************************)
(* A model of the transcript / mind-map pipeline of backend/:              *)
(*   pdf_extractor.extract_paragraph, transcript_service.clean_transcript, *)
(*   mindmap_service.generate_mindmap_json / save_mindmap_html and         *)
(*   cli_mindmap.main.                                                     *)
(* Strings are sequences of lexemes.  A page text is a sequence of single  *)
(* characters; a completion and a file name are sequences of the lexemes   *)
(* the code's regular expressions and str.replace look for.                *)
(***************************************************************************)
EXTENDS Integers, Sequences, FiniteSets, TLC

VARIABLES
  entry,            \* the function the process was started in
  pc,               \* position in the run
  pdf_exists,       \* os.path.exists(pdf_path)
  pdf,              \* reader.pages: the extracted text of every page
  page_number,      \* argument page_number (1-based)
  paragraph_index,  \* argument paragraph_index (0-based)
  output,           \* args.output / output_file
  parsed,           \* PdfReader(pdf_path) was constructed
  paragraphs,       \* extract_paragraph's local list of paragraphs
  result,           \* the dictionary extract_paragraph returned
  clean_response,   \* what the cleaning call answered
  cleaned_text,     \* clean_transcript's return value
  completion,       \* what the hierarchy call answered
  mindmap_data,     \* generate_mindmap_json's return value
  txt_filename,     \* main's txt_filename
  json_filename,    \* main's json_filename
  files,            \* files written in this run: name -> content
  mermaid_lines,    \* save_mindmap_html's list of diagram lines
  raised,           \* the exception that ended the run, if any
  exit_status,      \* the process's exit status, -1 while running
  printed           \* the SUCCESS summary main printed

vars == <<entry, pc, pdf_exists, pdf, page_number, paragraph_index, output,
          parsed, paragraphs, result, clean_response, cleaned_text,
          completion, mindmap_data, txt_filename, json_filename, files,
          mermaid_lines, raised, exit_status, printed>>

(***************************************************************************)
(* Bounds of the model.                                                    *)
(***************************************************************************)
MaxText == 4          \* characters of a page text
MaxIndex == 3         \* largest page_number / paragraph_index tried
MaxCompletion == 4    \* lexemes of a completion string
MaxNodes == 4         \* nodes of a topic tree
MaxName == 3          \* lexemes of an output file name

None == [none |-> TRUE]

RECURSIVE SeqsUpTo(_, _)
SeqsUpTo(S, n) ==
  IF n = 0 THEN {<<>>}
  ELSE LET shorter == SeqsUpTo(S, n - 1)
       IN  shorter \cup {Append(s, c) : s \in {t \in shorter : Len(t) = n - 1}, c \in S}

(***************************************************************************)
(* Python string primitives on sequences of characters.                    *)
(***************************************************************************)
Whitespace == {" ", "\n"}

RECURSIVE lstrip(_)
lstrip(s) ==
  IF s # <<>> /\ Head(s) \in Whitespace THEN lstrip(Tail(s)) ELSE s

RECURSIVE rstrip(_)
rstrip(s) ==
  IF s # <<>> /\ s[Len(s)] \in Whitespace
  THEN rstrip(SubSeq(s, 1, Len(s) - 1)) ELSE s

\* str.strip()
strip(s) == rstrip(lstrip(s))

\* str.split(sep): the pieces between the non-overlapping occurrences of
\* sep, found left to right; cur is the piece being collected.
RECURSIVE split_from(_, _, _)
split_from(s, sep, cur) ==
  IF s = <<>> THEN <<cur>>
  ELSE IF Len(s) >= Len(sep) /\ SubSeq(s, 1, Len(sep)) = sep
       THEN <<cur>> \o split_from(SubSeq(s, Len(sep) + 1, Len(s)), sep, <<>>)
       ELSE split_from(Tail(s), sep, Append(cur, Head(s)))

split(s, sep) == split_from(s, sep, <<>>)

\* [p.strip() for p in pieces if p.strip()]
RECURSIVE strip_nonempty(_)
strip_nonempty(pieces) ==
  IF pieces = <<>> THEN <<>>
  ELSE IF strip(Head(pieces)) # <<>>
       THEN <<strip(Head(pieces))>> \o strip_nonempty(Tail(pieces))
       ELSE strip_nonempty(Tail(pieces))

(***************************************************************************)
(* pdf_extractor.extract_paragraph                                         *)
(***************************************************************************)
\* STRATEGY 1
double_newline_split(full_text) == strip_nonempty(split(full_text, <<"\n", "\n">>))

\* STRATEGY 2
single_newline_split(full_text) == strip_nonempty(split(full_text, <<"\n">>))

\* Mutant: the fallback is taken only when the first split found nothing.
use_fallback_when_empty(first) == Len(first) < 1

\* if len(paragraphs) <= 1
use_fallback(first) == Len(first) <= 1

segment(full_text) ==
  LET first == double_newline_split(full_text)
  IN  IF use_fallback(first) THEN single_newline_split(full_text) ELSE first

page_out_of_range(n, count) == n - 1 < 0 \/ n - 1 >= count

\* Mutant: the negative index is not refused.
paragraph_out_of_range_upper_only(i, count) == i >= count

paragraph_out_of_range(i, count) == i < 0 \/ i >= count

PdfPath == "doc.pdf"

FileNotFoundError(path) ==
  [type |-> "FileNotFoundError", msg |-> <<"PDF not found at ", path>>]

PageError(n) ==
  [type |-> "ValueError", msg |-> <<"Page ", ToString(n), " out of range.">>]

ParagraphError(i, n, found) ==
  [type |-> "ValueError",
   msg |-> <<"Paragraph index ", ToString(i), " out of range on page ",
             ToString(n), ". Found ", ToString(found), " paragraphs.">>]

ExtractionResult(text, n, i) ==
  [text |-> text, page |-> n, paragraph_index |-> i, length |-> Len(text)]

\* list[i]: a negative index counts from the end.
list_index(list, i) ==
  IF 0 <= i /\ i < Len(list) THEN [ok |-> TRUE, item |-> list[i + 1]]
  ELSE IF i < 0 /\ -i <= Len(list) THEN [ok |-> TRUE, item |-> list[Len(list) + i + 1]]
  ELSE [ok |-> FALSE, item |-> <<>>]

IndexError == [type |-> "IndexError", msg |-> <<"list index out of range">>]

\* Mutant: the page is validated before the file is looked for.
file_missing_after_page_check ==
  ~pdf_exists /\ ~page_out_of_range(page_number, Len(pdf))

\* if not os.path.exists(pdf_path)
file_missing == ~pdf_exists

\* What extract_paragraph does with its arguments: the exception it raises or
\* the dictionary it returns, and the locals it got to.
extract_paragraph ==
  IF file_missing
  THEN [raised |-> FileNotFoundError(PdfPath), parsed |-> FALSE,
        paragraphs |-> <<>>, result |-> None]
  ELSE IF page_out_of_range(page_number, Len(pdf))
  THEN [raised |-> PageError(page_number), parsed |-> TRUE,
        paragraphs |-> <<>>, result |-> None]
  ELSE LET found == segment(list_index(pdf, page_number - 1).item)
       IN  IF paragraph_out_of_range(paragraph_index, Len(found))
           THEN [raised |-> ParagraphError(paragraph_index, page_number, Len(found)),
                 parsed |-> TRUE, paragraphs |-> found, result |-> None]
           ELSE LET target_text == list_index(found, paragraph_index)
                IN  IF ~target_text.ok
                    THEN [raised |-> IndexError, parsed |-> TRUE,
                          paragraphs |-> found, result |-> None]
                    ELSE [raised |-> None, parsed |-> TRUE, paragraphs |-> found,
                          result |-> ExtractionResult(target_text.item,
                                                      page_number, paragraph_index)]

(***************************************************************************)
(* JSON values, tagged with their Python type.  A string is a sequence of  *)
(* lexemes: a quote character, or a run of text that holds none.           *)
(***************************************************************************)
JStr(s) == [t |-> "str", s |-> s]
JNum(n) == [t |-> "num", n |-> n]
JArr(a) == [t |-> "arr", a |-> a]
JObj(o) == [t |-> "obj", o |-> o]

Leaf(label) == JObj([name |-> JStr(label), children |-> JArr(<<>>)])

Sentinel ==
  JObj([root |-> JStr(<<"Error Parsing JSON">>),
        children |-> JArr(<<Leaf(<<"Raw Text">>)>>)])

(***************************************************************************)
(* Completion strings: sequences of lexemes.  Fence is the three-backtick  *)
(* marker, "json" the language tag, "\n" whitespace, "Here" prose, and a   *)
(* document lexeme is the text of one complete JSON document.              *)
(***************************************************************************)
Fence == "<fence>"      \* stands for the three backtick characters
Tag == "json"

DocTree == "{\"root\":\"A\",\"children\":[{\"name\":\"B\",\"children\":[]}]}"
DocArray == "[{\"name\":\"A\"}]"
DocString == "\"A\""
DocNoKeys == "{\"topic\":\"A\"}"
DocNumLabel == "{\"root\":1,\"children\":[]}"

Docs == {DocTree, DocArray, DocString, DocNoKeys, DocNumLabel}

DocValue(d) ==
  CASE d = DocTree -> JObj([root |-> JStr(<<"A">>), children |-> JArr(<<Leaf(<<"B">>)>>)])
    [] d = DocArray -> JArr(<<JObj([name |-> JStr(<<"A">>)])>>)
    [] d = DocString -> JStr(<<"A">>)
    [] d = DocNoKeys -> JObj([topic |-> JStr(<<"A">>)])
    [] d = DocNumLabel -> JObj([root |-> JNum(1), children |-> JArr(<<>>)])

\* json.loads(content): the value, or JSONDecodeError.  Surrounding
\* whitespace is allowed; anything else beside the one document is not.
json_loads(content) ==
  LET c == strip(content)
  IN  IF Len(c) = 1 /\ c[1] \in Docs
      THEN [ok |-> TRUE, value |-> DocValue(c[1])]
      ELSE [ok |-> FALSE, value |-> None]

\* re.sub(r"```json\s*", "", content): every occurrence, left to right, in
\* one pass.
RECURSIVE sub_tagged_fence(_)
sub_tagged_fence(content) ==
  IF content = <<>> THEN <<>>
  ELSE IF Len(content) >= 2 /\ content[1] = Fence /\ content[2] = Tag
       THEN sub_tagged_fence(lstrip(SubSeq(content, 3, Len(content))))
       ELSE <<Head(content)>> \o sub_tagged_fence(Tail(content))

\* re.sub(r"```\s*$", "", content): a fence with only whitespace after it,
\* up to the end of the string.
sub_trailing_fence(content) ==
  LET r == rstrip(content)
  IN  IF r # <<>> /\ r[Len(r)] = Fence THEN SubSeq(r, 1, Len(r) - 1) ELSE content

clean_json_response(content) == strip(sub_trailing_fence(sub_tagged_fence(content)))

(***************************************************************************)
(* The remote chat-completion call: what client.chat.completions.create    *)
(* and response.choices[0].message.content can produce.                    *)
(***************************************************************************)
NoCall == [kind |-> "none"]                \* the call was not made yet
TransportError == [kind |-> "error"]       \* create() raises
NoChoices == [kind |-> "no_choices"]       \* choices is empty: IndexError
NullContent == [kind |-> "null"]           \* content is None: TypeError
Text(content) == [kind |-> "text", content |-> content]

CallError(resp) ==
  CASE resp.kind = "error" -> [type |-> "APIConnectionError", msg |-> <<"Connection error.">>]
    [] resp.kind = "no_choices" -> [type |-> "IndexError", msg |-> <<"list index out of range">>]
    [] resp.kind = "null" -> [type |-> "TypeError", msg |-> <<"object is not subscriptable">>]

\* What generate_mindmap_json does with the call's answer: the exception it
\* lets through or the value it returns.
parse_failure_value == Sentinel

\* Mutant: the parse failure is raised like every other exception.
generate_mindmap_json_reraising(resp) ==
  IF resp.kind # "text"
  THEN [raised |-> CallError(resp), value |-> None]
  ELSE LET parsed_json == json_loads(clean_json_response(resp.content))
       IN  IF parsed_json.ok
           THEN [raised |-> None, value |-> parsed_json.value]
           ELSE [raised |-> [type |-> "JSONDecodeError", msg |-> <<"Expecting value">>],
                 value |-> None]

generate_mindmap_json(resp) ==
  IF resp.kind # "text"
  THEN [raised |-> CallError(resp), value |-> None]
  ELSE LET parsed_json == json_loads(clean_json_response(resp.content))
       IN  IF parsed_json.ok
           THEN [raised |-> None, value |-> parsed_json.value]
           ELSE [raised |-> None, value |-> parse_failure_value]

\* Mutant: a failure of the call is raised to the caller.
clean_transcript_reraising(raw_text, resp) ==
  IF resp.kind = "text"
  THEN [raised |-> None, value |-> resp.content]
  ELSE [raised |-> CallError(resp), value |-> <<>>]

\* What clean_transcript does with the call's answer: every exception of
\* the call, and of reading the completion, is caught and raw_text returned.
clean_transcript(raw_text, resp) ==
  IF resp.kind = "text"
  THEN [raised |-> None, value |-> resp.content]
  ELSE [raised |-> None, value |-> raw_text]

(***************************************************************************)
(* mindmap_service.save_mindmap_html                                       *)
(***************************************************************************)
\* dict.get(key, default)
get(node, key, default) ==
  IF key \in DOMAIN node.o THEN node.o[key] ELSE default

\* label.replace('"', "'")
sanitize(label) ==
  [i \in 1..Len(label) |-> IF label[i] = "\"" THEN "'" ELSE label[i]]

node_name(node_id) == "node" \o ToString(node_id)

edge_line(parent_id, current_id, label) ==
  <<"    ", parent_id, " --> ", current_id, "[", "\"">> \o label \o <<"\"", "]">>

node_line(current_id, label) ==
  <<"    ", current_id, "[", "\"">> \o label \o <<"\"", "]">>

\* if parent_id: ("" stands for None, which is as false as the empty string)
has_parent(parent_id) == parent_id # ""

Rendering(lines, next) == [err |-> "", lines |-> lines, next |-> next]
RenderError(type) == [err |-> type, lines |-> <<>>, next |-> 0]

\* What "for child in value" walks over: a list's items, a string's
\* characters, a dictionary's keys; anything else is not iterable.
RECURSIVE keys_of(_)
keys_of(S) ==
  IF S = {} THEN <<>>
  ELSE LET k == CHOOSE x \in S : TRUE IN <<JStr(<<k>>)>> \o keys_of(S \ {k})

iterable(value) == value.t \in {"arr", "str", "obj"}

items(value) ==
  CASE value.t = "arr" -> value.a
    [] value.t = "str" -> [i \in 1..Len(value.s) |-> JStr(<<value.s[i]>>)]
    [] value.t = "obj" -> keys_of(DOMAIN value.o)

RECURSIVE json_to_mermaid(_, _, _)
RECURSIVE for_child(_, _, _)

\* Mutant: the next sibling's identifier is the previous sibling's plus one.
for_child_plus_one(children, current_id, child_id_counter) ==
  IF children = <<>> THEN Rendering(<<>>, child_id_counter)
  ELSE LET first == json_to_mermaid(Head(children), current_id, child_id_counter)
       IN  IF first.err # "" THEN first
           ELSE LET rest == for_child(Tail(children), current_id, child_id_counter + 1)
                IN  IF rest.err # "" THEN rest
                    ELSE Rendering(first.lines \o rest.lines, rest.next)

\* The loop over node.get("children", []): child_id_counter is threaded
\* through the children in order.
for_child(children, current_id, child_id_counter) ==
  IF children = <<>> THEN Rendering(<<>>, child_id_counter)
  ELSE LET first == json_to_mermaid(Head(children), current_id, child_id_counter)
       IN  IF first.err # "" THEN first
           ELSE LET rest == for_child(Tail(children), current_id, first.next)
                IN  IF rest.err # "" THEN rest
                    ELSE Rendering(first.lines \o rest.lines, rest.next)

json_to_mermaid(node, parent_id, node_id) ==
  IF node.t # "obj" THEN RenderError("AttributeError")
  ELSE LET label == get(node, "name", get(node, "root", JStr(<<"Topic">>)))
           children == get(node, "children", JArr(<<>>))
           current_id == node_name(node_id)
       IN  IF label.t # "str" THEN RenderError("AttributeError")
           ELSE IF ~iterable(children) THEN RenderError("TypeError")
           ELSE LET line == IF has_parent(parent_id)
                            THEN edge_line(parent_id, current_id, sanitize(label.s))
                            ELSE node_line(current_id, sanitize(label.s))
                    below == for_child(items(children), current_id, node_id + 1)
                IN  IF below.err # "" THEN below
                    ELSE Rendering(<<line>> \o below.lines, below.next)

\* "\n".join(lines)
RECURSIVE join_lines(_)
join_lines(lines) ==
  IF lines = <<>> THEN <<>>
  ELSE IF Len(lines) = 1 THEN lines[1]
  ELSE lines[1] \o <<"\n">> \o join_lines(Tail(lines))

mermaid_graph(lines) == <<"graph TD", "\n">> \o join_lines(lines)

BlockMarker == <<"<pre class=", "\"", "mermaid", "\"", ">">>

html_content(graph) ==
  <<"\n    <!DOCTYPE html>\n    <html>\n    <body>\n        <h2>Mind Map Visualization</h2>\n        ">>
  \o BlockMarker \o <<"\n">> \o graph
  \o <<"\n        </pre>\n        <script type=", "\"", "module", "\"",
       ">\n            import mermaid from ", "'",
       "https://cdn.jsdelivr.net/npm/mermaid@10/dist/mermaid.esm.min.mjs", "'",
       ";\n            mermaid.initialize({ startOnLoad: true });\n        </script>\n    </body>\n    </html>\n    ">>

(***************************************************************************)
(* cli_mindmap.main: the derived file names and the writes.                *)
(***************************************************************************)
\* str.replace(old, new) on a name whose lexemes are the old suffix, other
\* suffixes, separators and plain text.
replace(name, old, new) ==
  [i \in 1..Len(name) |-> IF name[i] = old THEN new ELSE name[i]]

\* name = args.output.replace(".html", ext); if name == args.output: name += ext
derived_name(base, ext) ==
  LET name == replace(base, ".html", ext)
  IN  IF name = base THEN Append(base, ext) ELSE name

\* open(name, "w") cannot succeed on the empty name or on a directory.
openable(name) == name # <<>> /\ name[Len(name)] # "/"

write_outcomes(name) == IF openable(name) THEN BOOLEAN ELSE {FALSE}

OSError(name) == [type |-> "OSError", msg |-> <<"cannot open ">> \o name]

written(name, content) ==
  [n \in DOMAIN files \cup {name} |-> IF n = name THEN content ELSE files[n]]

(***************************************************************************)
(* The inputs and the answers of the environment.                          *)
(***************************************************************************)
Chars == {"a", " ", "\n"}
PageTexts == SeqsUpTo(Chars, MaxText)
OtherPage == <<"a", "\n", "a">>

\* A document of no page, of one page, and of two pages with the page under
\* study first or second.
Pdfs ==
  {<<>>} \cup {<<t>> : t \in PageTexts}
         \cup {<<t, OtherPage>> : t \in PageTexts}
         \cup {<<OtherPage, t>> : t \in PageTexts}

SamplePdfs ==
  {<<>>, << <<"a">> >>, << <<"a", "\n", "\n", "a", " ", "a">>, <<>> >>}

NameLexemes == {"a", "/", ".html", ".bak", ".txt"}
OutputNames == SeqsUpTo(NameLexemes, MaxName)
SampleOutputs ==
  {<<"a", ".html">>, <<"a">>, <<>>, <<"a", ".html", ".bak">>,
   <<".html", "/", "a", ".html">>}

CompletionLexemes == {Fence, Tag, "\n", "Here"} \cup Docs
Completions == SeqsUpTo(CompletionLexemes, MaxCompletion)
SampleCompletions ==
  {<<DocTree>>, <<Fence, Tag, "\n", DocTree, "\n", Fence>>, <<"Here">>,
   <<DocArray>>, <<DocString>>, <<DocNoKeys>>, <<DocNumLabel>>}

CallFailures == {TransportError, NoChoices, NullContent}

\* The answers of the cleaning call.
CleanResponses == CallFailures \cup {Text(<<"a", " ", "a">>), Text(<<>>)}

\* The answers of the hierarchy call.
HierarchyResponses ==
  CallFailures \cup
  {Text(c) : c \in IF entry = "main" THEN SampleCompletions ELSE Completions}

\* Topic trees of n nodes: a root object and "name" objects below it.
Labels == {<<"A">>, <<"B">>, <<"A", "\"">>}

RECURSIVE Forests(_)
Forests(n) ==
  IF n = 0 THEN {<<>>}
  ELSE UNION {
         {<<JObj([name |-> JStr(l), children |-> JArr(c)])>> \o f :
            l \in Labels, c \in Forests(k - 1), f \in Forests(n - k)}
         : k \in 1..n}

Trees(n) ==
  {JObj([root |-> JStr(l), children |-> JArr(c)]) : l \in Labels, c \in Forests(n - 1)}

TopicTrees == UNION {Trees(n) : n \in 1..MaxNodes}

(***************************************************************************)
(* The runs.                                                               *)
(***************************************************************************)
Blank ==
  /\ parsed = FALSE
  /\ paragraphs = <<>>
  /\ result = None
  /\ clean_response = NoCall
  /\ cleaned_text = <<>>
  /\ completion = NoCall
  /\ txt_filename = <<>>
  /\ json_filename = <<>>
  /\ files = <<>>
  /\ mermaid_lines = <<>>
  /\ raised = None
  /\ exit_status = -1
  /\ printed = <<>>

\* python cli_mindmap.py pdf_path page paragraph --output output
Init ==
  /\ entry = "main"
  /\ pc = "main"
  /\ pdf_exists \in BOOLEAN
  /\ pdf \in SamplePdfs
  /\ page_number \in 0..2
  /\ paragraph_index \in -1..2
  /\ output \in SampleOutputs
  /\ mindmap_data = None
  /\ Blank

\* The same command on a readable one-page document, for every output name.
InitNames ==
  /\ entry = "main"
  /\ pc = "main"
  /\ pdf_exists = TRUE
  /\ pdf = << <<"a">> >>
  /\ page_number = 1
  /\ paragraph_index = 0
  /\ output \in OutputNames
  /\ mindmap_data = None
  /\ Blank

\* extract_paragraph(pdf_path, page_number, paragraph_index), called alone.
InitExtract ==
  /\ entry = "extract_paragraph"
  /\ pc = "extract"
  /\ pdf_exists \in BOOLEAN
  /\ pdf \in Pdfs
  /\ page_number \in 0..MaxIndex
  /\ paragraph_index \in -1..MaxIndex
  /\ output = <<>>
  /\ mindmap_data = None
  /\ Blank

\* generate_mindmap_json(transcript_text), called alone.
InitGenerate ==
  /\ entry = "generate_mindmap_json"
  /\ pc = "generate"
  /\ pdf_exists = FALSE
  /\ pdf = <<>>
  /\ page_number = 0
  /\ paragraph_index = 0
  /\ output = <<>>
  /\ mindmap_data = None
  /\ Blank

\* save_mindmap_html(mindmap_json, output_file), called alone.
InitRender ==
  /\ entry = "save_mindmap_html"
  /\ pc = "save_html"
  /\ pdf_exists = FALSE
  /\ pdf = <<>>
  /\ page_number = 0
  /\ paragraph_index = 0
  /\ output = <<"a", ".html">>
  /\ mindmap_data \in TopicTrees
  /\ Blank

\* Mutant: main's handler logs the exception and returns.
Abort_without_exit(exc) ==
  /\ raised' = exc
  /\ IF entry = "main"
     THEN pc' = "exited" /\ exit_status' = 0
     ELSE pc' = "raised" /\ exit_status' = exit_status

\* An exception leaves the function; main's handler logs it and exits 1.
Abort(exc) ==
  /\ raised' = exc
  /\ IF entry = "main"
     THEN pc' = "exited" /\ exit_status' = 1
     ELSE pc' = "raised" /\ exit_status' = exit_status

Return(next) ==
  /\ pc' = IF entry = "main" THEN next ELSE "returned"
  /\ UNCHANGED <<raised, exit_status>>

\* main: the validation before the pipeline.
MainStart ==
  /\ pc = "main"
  /\ IF ~pdf_exists
     THEN pc' = "exited" /\ exit_status' = 1
     ELSE pc' = "extract" /\ exit_status' = exit_status
  /\ UNCHANGED <<entry, pdf_exists, pdf, page_number, paragraph_index, output,
                 parsed, paragraphs, result, clean_response, cleaned_text,
                 completion, mindmap_data, txt_filename, json_filename, files,
                 mermaid_lines, raised, printed>>

ExtractParagraph ==
  /\ pc = "extract"
  /\ LET r == extract_paragraph
     IN  /\ parsed' = r.parsed
         /\ paragraphs' = r.paragraphs
         /\ result' = r.result
         /\ IF r.raised # None THEN Abort(r.raised) ELSE Return("clean")
  /\ UNCHANGED <<entry, pdf_exists, pdf, page_number, paragraph_index, output,
                 clean_response, cleaned_text, completion, mindmap_data,
                 txt_filename, json_filename, files, mermaid_lines, printed>>

\* process_pdf_paragraph's second step.
CleanTranscript ==
  /\ pc = "clean"
  /\ \E resp \in CleanResponses :
       LET c == clean_transcript(result.text, resp)
       IN  /\ clean_response' = resp
           /\ cleaned_text' = c.value
           /\ IF c.raised # None THEN Abort(c.raised) ELSE Return("write_txt")
  /\ UNCHANGED <<entry, pdf_exists, pdf, page_number, paragraph_index, output,
                 parsed, paragraphs, result, completion, mindmap_data,
                 txt_filename, json_filename, files, mermaid_lines, printed>>

WriteTranscript ==
  /\ pc = "write_txt"
  /\ LET name == derived_name(output, ".txt")
     IN  /\ txt_filename' = name
         /\ \E ok \in write_outcomes(name) :
              IF ok
              THEN /\ files' = written(name, [kind |-> "txt", text |-> cleaned_text])
                   /\ pc' = "generate"
                   /\ UNCHANGED <<raised, exit_status>>
              ELSE /\ files' = files
                   /\ Abort(OSError(name))
  /\ UNCHANGED <<entry, pdf_exists, pdf, page_number, paragraph_index, output,
                 parsed, paragraphs, result, clean_response, cleaned_text,
                 completion, mindmap_data, json_filename, mermaid_lines, printed>>

GenerateMindmapJson ==
  /\ pc = "generate"
  /\ \E resp \in HierarchyResponses :
       LET g == generate_mindmap_json(resp)
       IN  /\ completion' = resp
           /\ mindmap_data' = g.value
           /\ IF g.raised # None THEN Abort(g.raised) ELSE Return("write_json")
  /\ UNCHANGED <<entry, pdf_exists, pdf, page_number, paragraph_index, output,
                 parsed, paragraphs, result, clean_response, cleaned_text,
                 txt_filename, json_filename, files, mermaid_lines, printed>>

WriteJson ==
  /\ pc = "write_json"
  /\ LET name == derived_name(output, ".json")
     IN  /\ json_filename' = name
         /\ \E ok \in write_outcomes(name) :
              IF ok
              THEN /\ files' = written(name, [kind |-> "json", data |-> mindmap_data])
                   /\ pc' = "save_html"
                   /\ UNCHANGED <<raised, exit_status>>
              ELSE /\ files' = files
                   /\ Abort(OSError(name))
  /\ UNCHANGED <<entry, pdf_exists, pdf, page_number, paragraph_index, output,
                 parsed, paragraphs, result, clean_response, cleaned_text,
                 completion, mindmap_data, txt_filename, mermaid_lines, printed>>

SaveMindmapHtml ==
  /\ pc = "save_html"
  /\ LET r == json_to_mermaid(mindmap_data, "", 0)
     IN  IF r.err # ""
         THEN /\ Abort([type |-> r.err, msg |-> <<"object has no attribute">>])
              /\ UNCHANGED <<files, mermaid_lines>>
         ELSE /\ mermaid_lines' = r.lines
              /\ \E ok \in write_outcomes(output) :
                   IF ok
                   THEN /\ files' = written(output,
                                       [kind |-> "html",
                                        content |-> html_content(mermaid_graph(r.lines))])
                        /\ Return("summary")
                   ELSE /\ files' = files
                        /\ Abort(OSError(output))
  /\ UNCHANGED <<entry, pdf_exists, pdf, page_number, paragraph_index, output,
                 parsed, paragraphs, result, clean_response, cleaned_text,
                 completion, mindmap_data, txt_filename, json_filename, printed>>

\* main: the SUCCESS summary, and the return that ends the process with 0.
PrintSummary ==
  /\ pc = "summary"
  /\ printed' = <<txt_filename, json_filename, output>>
  /\ exit_status' = 0
  /\ pc' = "exited"
  /\ UNCHANGED <<entry, pdf_exists, pdf, page_number, paragraph_index, output,
                 parsed, paragraphs, result, clean_response, cleaned_text,
                 completion, mindmap_data, txt_filename, json_filename, files,
                 mermaid_lines, raised>>

Next ==
  \/ MainStart
  \/ ExtractParagraph
  \/ CleanTranscript
  \/ WriteTranscript
  \/ GenerateMindmapJson
  \/ WriteJson
  \/ SaveMindmapHtml
  \/ PrintSummary

Spec == Init /\ [][Next]_vars
SpecNames == InitNames /\ [][Next]_vars
SpecExtract == InitExtract /\ [][ExtractParagraph]_vars
SpecGenerate == InitGenerate /\ [][GenerateMindmapJson]_vars
SpecRender == InitRender /\ [][SaveMindmapHtml]_vars

(***************************************************************************)
(* Properties of extract_paragraph, checked under SpecExtract.             *)
(***************************************************************************)
Min(S) == CHOOSE x \in S : \A y \in S : x <= y
Max(S) == CHOOSE x \in S : \A y \in S : x >= y

\* The positions of text that belong to a run of two or more newlines.
BoundaryPositions(text) ==
  {i \in 1..Len(text) :
     /\ text[i] = "\n"
     /\ \/ (i > 1 /\ text[i - 1] = "\n")
        \/ (i < Len(text) /\ text[i + 1] = "\n")}

NewlinePositions(text) == {i \in 1..Len(text) : text[i] = "\n"}

\* The maximal stretches of text between the separator positions, trimmed,
\* the empty ones dropped, in the order of the text.
Pieces(text, seps) ==
  LET n == Len(text)
      runs == {r \in (1..n) \X (1..n) :
                 /\ r[1] <= r[2]
                 /\ \A i \in r[1]..r[2] : i \notin seps
                 /\ (r[1] = 1 \/ r[1] - 1 \in seps)
                 /\ (r[2] = n \/ r[2] + 1 \in seps)}
      inked(r) == {i \in r[1]..r[2] : text[i] \notin Whitespace}
      kept == {r \in runs : inked(r) # {}}
      nth(k) == CHOOSE r \in kept : Cardinality({q \in kept : q[1] < r[1]}) = k - 1
  IN  [k \in 1..Cardinality(kept) |->
         SubSeq(text, Min(inked(nth(k))), Max(inked(nth(k))))]

BlankLineBlocks(text) == Pieces(text, BoundaryPositions(text))
NonEmptyLines(text) == Pieces(text, NewlinePositions(text))

PageInRange == pdf_exists /\ page_number \in 1..Len(pdf)
PageText == pdf[page_number]
Segmented == pc # "extract" /\ PageInRange

ReportsCount(msg, n) ==
  \E i \in 1..(Len(msg) - 1) : msg[i] = ". Found " /\ msg[i + 1] = ToString(n)

\* C6: on an existing document and a page in range whose segmentation yields
\* n paragraphs, an index outside 0..n-1 raises the range error whose message
\* reports n, and nothing is returned; an index inside returns that
\* paragraph, its length, and the page and index asked for.
C6_Selection ==
  Segmented =>
    LET found == segment(PageText)
        n == Len(found)
    IN  IF paragraph_index \notin 0..(n - 1)
        THEN /\ pc = "raised"
             /\ raised.type = "ValueError"
             /\ ReportsCount(raised.msg, n)
             /\ result = None
        ELSE /\ pc = "returned"
             /\ raised = None
             /\ result.text = found[paragraph_index + 1]
             /\ result.length = Len(found[paragraph_index + 1])
             /\ result.page = page_number
             /\ result.paragraph_index = paragraph_index

\* Index 0 was asked of a page that holds no paragraph, and refused.
C6_Witness ==
  /\ Segmented
  /\ paragraph_index = 0
  /\ segment(PageText) = <<>>
  /\ pc = "raised"

\* C7: on a path that does not exist the call raises the not-found error
\* whatever the page and the index, before the document is parsed or
\* segmented.
C7_NotFoundFirst ==
  (pc # "extract" /\ ~pdf_exists) =>
    /\ pc = "raised"
    /\ raised.type = "FileNotFoundError"
    /\ ~parsed
    /\ paragraphs = <<>>
    /\ result = None

\* The path does not exist, and the page and the index are out of range too.
C7_Witness ==
  /\ pc = "raised"
  /\ ~pdf_exists
  /\ page_number \notin 1..Len(pdf)
  /\ paragraph_index < 0
  /\ raised.type = "FileNotFoundError"

(***************************************************************************)
(* Properties of generate_mindmap_json, checked under SpecGenerate and,    *)
(* with the stages after it, under Spec.                                   *)
(***************************************************************************)
Answered == completion.kind = "text"
ParseFails == ~json_loads(clean_json_response(completion.content)).ok

\* C3: a completion whose content fails JSON parsing once the fences are
\* stripped is answered by the sentinel tree and no exception; a failure of
\* the remote call itself is raised to the caller and no sentinel returned.
C3_SentinelOnParseFailure ==
  /\ (Answered /\ ParseFails) =>
       (pc = "returned" /\ raised = None /\ mindmap_data = Sentinel)
  /\ completion = TransportError =>
       (pc = "raised" /\ raised.type = "APIConnectionError" /\ mindmap_data = None)

\* Prose around a document made the parse fail and the sentinel was returned.
C3_Witness ==
  /\ pc = "returned"
  /\ Answered
  /\ completion.content = <<"Here", DocTree>>
  /\ mindmap_data = Sentinel

RECURSIVE WellFormedNode(_, _)
WellFormedNode(v, key) ==
  /\ v.t = "obj"
  /\ {key, "children"} \subseteq DOMAIN v.o
  /\ v.o[key].t = "str"
  /\ v.o.children.t = "arr"
  /\ \A i \in 1..Len(v.o.children.a) : WellFormedNode(v.o.children.a[i], "name")

WellFormedTree(v) == WellFormedNode(v, "root")

\* C4: whatever the model answers, the value extract returns is a
\* well-formed topic tree, and the answer never makes the run fail, in the
\* rendering stage either.
C4_AlwaysWellFormed ==
  /\ mindmap_data # None => WellFormedTree(mindmap_data)
  /\ (Answered /\ raised # None) => raised.type = "OSError"

\* The completion is one document between an opening fence, with or without
\* the language tag, and a closing fence, with whitespace around each.
Fenced(content, d) ==
  LET core == strip(content)
  IN  /\ Len(core) >= 3
      /\ core[1] = Fence
      /\ core[Len(core)] = Fence
      /\ LET inner == SubSeq(core, 2, Len(core) - 1)
         IN  \/ strip(inner) = <<d>>
             \/ (inner[1] = Tag /\ strip(Tail(inner)) = <<d>>)

\* C10: a valid JSON document wrapped in fences, tagged or not, is returned
\* parsed, and so is a bare valid document.
C10_FencesStripped ==
  (pc # "generate" /\ Answered) =>
    \A d \in Docs :
      (Fenced(completion.content, d) \/ strip(completion.content) = <<d>>) =>
        (pc = "returned" /\ mindmap_data = DocValue(d))

(***************************************************************************)
(* Properties of save_mindmap_html, checked under SpecRender.              *)
(***************************************************************************)
Children(node) == node.o.children.a
LabelOf(node) == IF "root" \in DOMAIN node.o THEN node.o.root.s ELSE node.o.name.s

RECURSIVE Size(_)
RECURSIVE SizeAll(_)
Size(node) == 1 + SizeAll(Children(node))
SizeAll(nodes) == IF nodes = <<>> THEN 0 ELSE Size(Head(nodes)) + SizeAll(Tail(nodes))

\* The nodes in pre-order, each with its label and its parent's position;
\* a node's position is its parent's, plus one, plus the sizes of the
\* siblings before it.
RECURSIVE PreOrder(_, _, _)
RECURSIVE PreOrderAll(_, _, _)
PreOrder(node, parent, pos) ==
  <<[label |-> LabelOf(node), parent |-> parent]>>
  \o PreOrderAll(Children(node), pos, pos + 1)
PreOrderAll(nodes, parent, pos) ==
  IF nodes = <<>> THEN <<>>
  ELSE PreOrder(Head(nodes), parent, pos)
       \o PreOrderAll(Tail(nodes), parent, pos + Size(Head(nodes)))

Contains(text, sub) ==
  \E i \in 0..(Len(text) - Len(sub)) : SubSeq(text, i + 1, i + Len(sub)) = sub

IsEdge(line) == \E i \in 1..Len(line) : line[i] = " --> "

Rendered == pc = "returned" /\ entry = "save_mindmap_html"
Document == files[output].content

\* The n declaration lines of the tree: line k declares node(k-1), the root
\* alone and every other node on an edge from its parent, in pre-order.
DiagramOf(tree) ==
  LET order == PreOrder(tree, -1, 0)
  IN  /\ Len(mermaid_lines) = Size(tree)
      /\ Len(order) = Size(tree)
      /\ \A k \in 1..Len(order) :
           mermaid_lines[k] =
             IF k = 1
             THEN <<"    ", "node0", "[", "\"">> \o sanitize(order[k].label) \o <<"\"", "]">>
             ELSE <<"    ", "node" \o ToString(order[k].parent), " --> ",
                    "node" \o ToString(k - 1), "[", "\"">>
                  \o sanitize(order[k].label) \o <<"\"", "]">>
      /\ Cardinality({k \in 1..Len(mermaid_lines) : IsEdge(mermaid_lines[k])})
           = Size(tree) - 1
      /\ ~IsEdge(mermaid_lines[1])
      /\ Contains(Document, BlockMarker)
      /\ \A k \in 1..Len(mermaid_lines) : Contains(Document, mermaid_lines[k])

\* C8 as stated: n declaration lines in pre-order with identifiers
\* node0..node(n-1), one edge per non-root node from its parent, and a
\* document that holds the block marker and every node label.
C8_AsStated ==
  Rendered =>
    /\ DiagramOf(mindmap_data)
    /\ \A k \in 1..Size(mindmap_data) :
         Contains(Document, PreOrder(mindmap_data, -1, 0)[k].label)

\* C8, amended: the same, the document holding every node label with its
\* double quotes replaced by single quotes.
C8_Diagram ==
  Rendered =>
    /\ DiagramOf(mindmap_data)
    /\ \A k \in 1..Size(mindmap_data) :
         Contains(Document, sanitize(PreOrder(mindmap_data, -1, 0)[k].label))

\* A root with two direct children, one of them with a child of its own and
\* a double quote in its label, was rendered.
C8_Witness ==
  /\ Rendered
  /\ Len(Children(mindmap_data)) = 2
  /\ Len(Children(Children(mindmap_data)[1])) = 1
  /\ LabelOf(Children(mindmap_data)[1]) = <<"A", "\"">>
  /\ Len(mermaid_lines) = 4

(***************************************************************************)
(* Properties of main, checked under Spec and SpecNames.                   *)
(***************************************************************************)
EndsInHtml(name) == name # <<>> /\ name[Len(name)] = ".html"
Stem(name) == SubSeq(name, 1, Len(name) - 1)
NamesDerived == txt_filename # <<>> /\ json_filename # <<>>

\* C9: a base name that ends in .html gives the names with that final
\* extension replaced; any other base name gives the names with the
\* extension appended and nothing replaced; the three names differ.
C9_DerivedNames ==
  NamesDerived =>
    /\ EndsInHtml(output) =>
         /\ txt_filename = Append(Stem(output), ".txt")
         /\ json_filename = Append(Stem(output), ".json")
    /\ ~EndsInHtml(output) =>
         /\ txt_filename = Append(output, ".txt")
         /\ json_filename = Append(output, ".json")
    /\ Cardinality({txt_filename, json_filename, output}) = 3

Succeeded == exit_status = 0 \/ printed # <<>>

ExtractionFailed == pc \notin {"main", "extract"} /\ result = None
HierarchyCallFailed == completion \in CallFailures
WriteFailed ==
  \/ (txt_filename # <<>> /\ txt_filename \notin DOMAIN files)
  \/ (json_filename # <<>> /\ json_filename \notin DOMAIN files)
  \/ (mermaid_lines # <<>> /\ output \notin DOMAIN files)

ArtifactsWritten ==
  /\ Cardinality({txt_filename, json_filename, output}) = 3
  /\ {txt_filename, json_filename, output} \subseteq DOMAIN files
  /\ files[txt_filename] = [kind |-> "txt", text |-> cleaned_text]
  /\ files[json_filename] = [kind |-> "json", data |-> mindmap_data]
  /\ files[output].kind = "html"

\* C1: the summary and status 0 occur only once extraction, hierarchy
\* extraction and rendering completed and the three artifacts were written;
\* a failed extraction, hierarchy call or file write ends the run with a
\* non-zero status and no summary.
C1_SuccessOnlyWhenComplete ==
  /\ Succeeded =>
       /\ pc = "exited" /\ exit_status = 0 /\ raised = None
       /\ result # None
       /\ Answered
       /\ mindmap_data # None
       /\ mermaid_lines # <<>>
       /\ ArtifactsWritten
  /\ (ExtractionFailed \/ HierarchyCallFailed \/ WriteFailed) =>
       (pc = "exited" /\ exit_status \notin {-1, 0} /\ printed = <<>>)

\* A run printed the summary and ended with status 0.
C1_Witness ==
  /\ pc = "exited"
  /\ exit_status = 0
  /\ printed = <<txt_filename, json_filename, output>>
  /\ ArtifactsWritten

CleaningFailed == clean_response \in CallFailures

====
